---------------------------- MODULE Spec2Model ----------------------------
(***************************************************************************)
(* Model of the AN01 extraction engine (services/parser: parseExcelFile   *)
(* and its numeric normalisers).                                           *)
(*                                                                         *)
(* Representation.                                                         *)
(*  - A text is a sequence of one-character strings, so that substring     *)
(*    search, case folding, replace and the prefix parsers of JavaScript   *)
(*    are computed, not assumed.                                           *)
(*  - A JavaScript number is a fixed-point integer counting thousandths    *)
(*    (Scale): 0.2 is 200, 20 is 20000, 120000 is 120000000.  Ranks, which *)
(*    come from parseInt, are kept as plain integers.                      *)
(*  - A cell is a record [t, v, s]: t is "undef", "num" or "str"; v is the *)
(*    number of a "num" cell, s the text of a "str" cell.                  *)
(*  - A row is [present, cells]; present = FALSE is a hole of the outer    *)
(*    array (jsonData[i] === undefined), the case the code guards with     *)
(*    `if (!row)` and `!row ||`.                                           *)
(***************************************************************************)
EXTENDS Integers, Sequences, FiniteSets, TLC

VARIABLES
    jsonData,       \* the grid handed to the pipeline (sheet_to_json output)
    reader,         \* FileReader: "loading" | "done"
    promise,        \* the promise parseExcelFile returns: [state, value, error]
    resolveCalls,   \* calls of resolve made by the handlers
    rejectCalls,    \* calls of reject made by the handlers
    pctVal,         \* argument of a parsePercentage call
    pctRes,         \* [done, v]: its return value once the call was made
    curVal,         \* argument of a parseCurrency call
    curRes,         \* [done, v]: its return value once the call was made
    SheetNames,     \* workbook.SheetNames: the sheet names, in workbook order
    sheetName,      \* [chosen, name]: the name the sheet selection settled on
    sheetsRead,     \* the names whose sheets were handed to sheet_to_json, in order
    calls,          \* concurrent parseExcelFile calls: [jsonData, reader, promise] each
    uploads,        \* processFile calls of the upload view, in order of submission
    view,           \* state of FileUpload: [loading, progress, error]
    analysisData,   \* state of App: the result shown by the dashboard, or none
    timeouts,       \* pending 600 ms timeouts in order of creation: the upload, and
                    \* the number of files submitted before the timeout was set
    completeCalls   \* the uploads whose result was handed to onAnalysisComplete

\* the variables of one parseExcelFile call, and those of the calls of the helpers
callVars == <<jsonData, reader, promise, resolveCalls, rejectCalls>>
pctVars == <<pctVal, pctRes>>
curVars == <<curVal, curRes>>
sheetVars == <<SheetNames, sheetName, sheetsRead>>
uiVars == <<uploads, view, analysisData, timeouts, completeCalls>>
auxVars == <<curVars, sheetVars, calls, uiVars>>
vars == <<callVars, pctVars, auxVars>>

(***************************************************************************)
(* Numbers                                                                 *)
(***************************************************************************)
\* thousandths: three decimal places are kept of every JavaScript number
Scale == 10 * 10 * 10

NaN == [nan |-> TRUE, v |-> 0]
Number(n) == [nan |-> FALSE, v |-> n]

\* Math.round: the nearest integer, halves towards +infinity
MathRound(x) == ((x + Scale \div 2) \div Scale) * Scale

\* x * 100 for a fixed-point x
Times100(x) == x * 100

(***************************************************************************)
(* Texts                                                                   *)
(***************************************************************************)
Digits == <<"0", "1", "2", "3", "4", "5", "6", "7", "8", "9">>
UpperChars == <<"A", "B", "C", "D", "E", "F", "G", "H", "I", "J", "K", "L", "M",
                "N", "O", "P", "Q", "R", "S", "T", "U", "V", "W", "X", "Y", "Z",
                "É", "È">>
LowerChars == <<"a", "b", "c", "d", "e", "f", "g", "h", "i", "j", "k", "l", "m",
                "n", "o", "p", "q", "r", "s", "t", "u", "v", "w", "x", "y", "z",
                "é", "è">>
\* what /\s/ and trim() take for white space, among the characters of the texts used
WhiteSpace == {" ", "\t", "nbsp"}

DigitValue == [c \in {Digits[i] : i \in 1..Len(Digits)} |->
                  (CHOOSE i \in 1..Len(Digits) : Digits[i] = c) - 1]
IsDigit(c) == c \in DOMAIN DigitValue
DigitVal(c) == DigitValue[c]

LowerOf == [c \in {UpperChars[i] : i \in 1..Len(UpperChars)} |->
               LowerChars[CHOOSE i \in 1..Len(UpperChars) : UpperChars[i] = c]]
toLowerChar(c) == IF c \in DOMAIN LowerOf THEN LowerOf[c] ELSE c

\* String.prototype.toLowerCase
UpperOf == [c \in {LowerChars[i] : i \in 1..Len(LowerChars)} |->
               UpperChars[CHOOSE i \in 1..Len(LowerChars) : LowerChars[i] = c]]

toUpperChar(c) == IF c \in DOMAIN UpperOf THEN UpperOf[c] ELSE c

\* String.prototype.toUpperCase
toUpperCase(s) == [i \in 1..Len(s) |-> toUpperChar(s[i])]

toLowerCase(s) == [i \in 1..Len(s) |-> toLowerChar(s[i])]

\* String.prototype.includes
includes(s, kw) ==
    \E i \in 0..(Len(s) - Len(kw)) : \A j \in 1..Len(kw) : s[i + j] = kw[j]

\* String.prototype.replace(c, r) with a string pattern: the first occurrence only
replaceFirst(s, c, r) ==
    IF \E i \in 1..Len(s) : s[i] = c
    THEN LET k == CHOOSE i \in 1..Len(s) : s[i] = c /\ \A j \in 1..(i - 1) : s[j] # c
         IN  SubSeq(s, 1, k - 1) \o r \o SubSeq(s, k + 1, Len(s))
    ELSE s

\* String.prototype.replace(/\s|€/g, ''): every occurrence
stripSpacesAndEuro(s) == SelectSeq(s, LAMBDA c : c \notin WhiteSpace /\ c # "€")

\* the text without its leading white space
trimStart(s) ==
    IF \A i \in 1..Len(s) : s[i] \in WhiteSpace
    THEN <<>>
    ELSE SubSeq(s, CHOOSE i \in 1..Len(s) :
                       s[i] \notin WhiteSpace /\ \A j \in 1..(i - 1) : s[j] \in WhiteSpace,
                Len(s))

\* String.prototype.trim
trim(s) ==
    LET t == trimStart(s)
    IN  IF t = <<>>
        THEN <<>>
        ELSE SubSeq(t, 1, CHOOSE i \in 1..Len(t) :
                              t[i] \notin WhiteSpace
                              /\ \A j \in (i + 1)..Len(t) : t[j] \in WhiteSpace)

\* the length of the longest prefix of s made of decimal digits
DigitPrefixLen(s) ==
    CHOOSE k \in 0..Len(s) :
        /\ \A i \in 1..k : IsDigit(s[i])
        /\ (k = Len(s) \/ ~IsDigit(s[k + 1]))

RECURSIVE DigitsValue(_)
\* the integer a sequence of digits writes
DigitsValue(s) ==
    IF s = <<>> THEN 0
    ELSE DigitsValue(SubSeq(s, 1, Len(s) - 1)) * 10 + DigitVal(s[Len(s)])

\* the thousandths the digits after a decimal point write (further digits are below
\* the model's precision)
FracValue(s) ==
    LET d(i) == IF i <= Len(s) THEN DigitVal(s[i]) ELSE 0
    IN  d(1) * 100 + d(2) * 10 + d(3)

\* the prefix grammar shared by parseFloat and parseInt: white space, a sign, digits
NumPrefix(s) ==
    LET t == trimStart(s)
        signed == t # <<>> /\ t[1] \in {"-", "+"}
        u == IF signed THEN Tail(t) ELSE t
        ni == DigitPrefixLen(u)
    IN  [neg |-> t # <<>> /\ t[1] = "-", ni |-> ni,
         int |-> DigitsValue(SubSeq(u, 1, ni)),
         rest |-> SubSeq(u, ni + 1, Len(u))]

\* parseFloat of a text: the longest numeric prefix, NaN when there is none.
\* (Exponents and "Infinity" are not read: no text of the model has them.)
parseFloat(s) ==
    LET p == NumPrefix(s)
        hasDot == p.rest # <<>> /\ p.rest[1] = "."
        fr == IF hasDot THEN Tail(p.rest) ELSE <<>>
        nf == DigitPrefixLen(fr)
        mag == p.int * Scale + FracValue(SubSeq(fr, 1, nf))
    IN  IF p.ni = 0 /\ nf = 0 THEN NaN
        ELSE Number(IF p.neg THEN -mag ELSE mag)

\* parseInt of a text, radix 10: a plain integer, NaN when no digit leads.
\* (A "0x" prefix is not read as hexadecimal: no text of the model has one.)
parseIntText(s) ==
    LET p == NumPrefix(s)
    IN  IF p.ni = 0 THEN NaN ELSE Number(IF p.neg THEN -p.int ELSE p.int)

RECURSIVE IntDigits(_)
\* the decimal digits of a natural number
IntDigits(k) ==
    IF k < 10 THEN <<Digits[k + 1]>>
    ELSE IntDigits(k \div 10) \o <<Digits[(k % 10) + 1]>>

RECURSIVE StripTrailingZeros(_)
StripTrailingZeros(s) ==
    IF s # <<>> /\ s[Len(s)] = "0"
    THEN StripTrailingZeros(SubSeq(s, 1, Len(s) - 1))
    ELSE s

\* Number.prototype.toString of a fixed-point number: "20", "0.2", "-5.5"
numToString(n) ==
    LET m == IF n < 0 THEN -n ELSE n
        fp == m % Scale
        frac == StripTrailingZeros(<<Digits[(fp \div 100) + 1],
                                     Digits[((fp \div 10) % 10) + 1],
                                     Digits[(fp % 10) + 1]>>)
    IN  (IF n < 0 THEN <<"-">> ELSE <<>>)
        \o IntDigits(m \div Scale)
        \o (IF fp = 0 THEN <<>> ELSE <<".">> \o frac)

(***************************************************************************)
(* Cells                                                                   *)
(***************************************************************************)
Undef == [t |-> "undef", v |-> 0, s |-> <<>>]
Num(n) == [t |-> "num", v |-> n, s |-> <<>>]
Str(s) == [t |-> "str", v |-> 0, s |-> s]

\* JavaScript truthiness of a cell: undefined, 0 and "" are falsy
Truthy(c) ==
    \/ c.t = "num" /\ c.v # 0
    \/ c.t = "str" /\ c.s # <<>>

\* c.toString() of a number or a text
cellToString(c) == IF c.t = "num" THEN numToString(c.v) ELSE c.s

\* String(c), as parseInt applies it to its argument
StringOf(c) ==
    IF c.t = "undef" THEN <<"u", "n", "d", "e", "f", "i", "n", "e", "d">>
    ELSE cellToString(c)

(***************************************************************************)
(* parsePercentage                                                         *)
(***************************************************************************)
\* `x < 1 ? Math.round(x * 100) : x`
PercentRule(x) == IF x < Scale THEN MathRound(Times100(x)) ELSE x

\* the decimal comma left as it is
parsePercentageNoComma(val) ==
    IF ~Truthy(val) THEN 0
    ELSE IF val.t = "num" THEN PercentRule(val.v)
    ELSE LET num == parseFloat(trim(replaceFirst(val.s, "%", <<>>)))
         IN  IF num.nan THEN 0 ELSE PercentRule(num.v)
parsePercentage(val) ==
    IF ~Truthy(val) THEN 0
    ELSE IF val.t = "num" THEN PercentRule(val.v)
    ELSE LET str == trim(replaceFirst(replaceFirst(val.s, "%", <<>>), ",", <<".">>))
             num == parseFloat(str)
         IN  IF num.nan THEN 0 ELSE PercentRule(num.v)

(***************************************************************************)
(* parseScore, parseCurrency, parseInt(..) || 0                            *)
(***************************************************************************)
\* `parseFloat(..) || 0`: NaN and 0 give 0
OrZero(num) == IF num.nan THEN 0 ELSE num.v

parseScore(val) ==
    IF val.t = "num" THEN val.v
    ELSE IF ~Truthy(val) THEN 0
    ELSE OrZero(parseFloat(replaceFirst(cellToString(val), ",", <<".">>)))

\* only the first white space removed, as a string pattern would
parseCurrencyFirstSpace(val) ==
    IF val.t = "num" THEN val.v
    ELSE IF ~Truthy(val) THEN 0
    ELSE OrZero(parseFloat(replaceFirst(replaceFirst(replaceFirst(cellToString(val),
                                                                  " ", <<>>),
                                                     "€", <<>>),
                                        ",", <<".">>)))
parseCurrency(val) ==
    IF val.t = "num" THEN val.v
    ELSE IF ~Truthy(val) THEN 0
    ELSE OrZero(parseFloat(replaceFirst(stripSpacesAndEuro(cellToString(val)),
                                        ",", <<".">>)))

\* `parseInt(cell) || 0`: parseInt reads String(cell)
parseIntOrZero(c) == OrZero(parseIntText(StringOf(c)))

(***************************************************************************)
(* The grid                                                                *)
(***************************************************************************)
Absent == [present |-> FALSE, cells |-> <<>>]
Row(cells) == [present |-> TRUE, cells |-> cells]

\* row[j], undefined past the end of the row (j counts from 0)
cellAt(row, j) == IF j >= 0 /\ j < Len(row.cells) THEN row.cells[j + 1] ELSE Undef

\* jsonData[i] (i counts from 0)
rowAt(grid, i) == IF i >= 0 /\ i < Len(grid) THEN grid[i + 1] ELSE Absent

\* c && c.toString().toLowerCase().includes(keyword)
cellHasKeyword(c, keyword) ==
    Truthy(c) /\ includes(toLowerCase(cellToString(c)), keyword)

RECURSIVE joinCells(_)
\* Array.prototype.join(' '): undefined elements give the empty text
joinCells(cells) ==
    IF cells = <<>> THEN <<>>
    ELSE LET one(c) == IF c.t = "undef" THEN <<>> ELSE cellToString(c)
         IN  IF Len(cells) = 1 THEN one(cells[1])
             ELSE one(cells[1]) \o <<" ">> \o joinCells(Tail(cells))

(***************************************************************************)
(* Errors and results                                                      *)
(***************************************************************************)
StructureMessage == "Structure du tableau non reconnue (Colonne 'Raison sociale' manquante)"
EmptyResultMessage == "Aucune offre trouvée dans le tableau."

NoError == [name |-> "", message |-> ""]
StructureError == [name |-> "Error", message |-> StructureMessage]
EmptyResultError == [name |-> "Error", message |-> EmptyResultMessage]
\* reading a property of undefined
TypeError == [name |-> "TypeError", message |-> "Cannot read properties of undefined"]
\* the event FileReader hands to onerror: it has no message
ReadError == [name |-> "ProgressEvent", message |-> ""]

EmptyMetadata ==
    [consultationNo |-> <<>>, description |-> <<>>, buyer |-> <<>>,
     requester |-> <<>>, technician |-> <<>>, decisionDate |-> <<>>, vatRate |-> 0]

\* a quotient the code computes in floating point, kept exact: num / den
Ratio(n, d) == [num |-> n, den |-> d]

NoStats ==
    [averageOffer |-> Ratio(0, 1), minOffer |-> 0, maxOffer |-> 0,
     selectedOfferAmount |-> 0, selectedSupplierName |-> Undef,
     savingVsAverage |-> Ratio(0, 1),
     savingPercent |-> [kind |-> "none", num |-> 0, den |-> 1]]

NoResult == [metadata |-> EmptyMetadata, offers |-> <<>>, stats |-> NoStats]

(***************************************************************************)
(* The rows the grids of the model are made of                             *)
(***************************************************************************)
RowHeader == Row(<<Str(<<"R", "a", "i", "s", "o", "n", " ", "S", "o", "c", "i", "a", "l", "e">>),
                   Str(<<"R", "a", "n", "g">>)>>)
RowEmpty == Row(<<>>)
RowMarker == Row(<<Str(<<"C", "a", "l", "c", "u", "l", " ", "d", "e", "s", " ", "g", "a", "i", "n", "s">>)>>)
RowAcme == Row(<<Str(<<"A", "c", "m", "e">>), Str(<<"1">>), Str(<<"8", "5", ",", "5">>),
                 Str(<<"1">>), Str(<<"5", "0">>), Str(<<"1">>), Str(<<"3", "5", ",", "5">>),
                 Str(<<"1", "2", "0", " ", "0", "0", "0", ",", "0", "0", " ", "€">>)>>)
RowBeta == Row(<<Str(<<"B", "e", "t", "a">>), Str(<<"2">>), Str(<<"7", "2">>),
                 Str(<<"2">>), Str(<<"4", "0">>), Str(<<"2">>), Str(<<"3", "2">>),
                 Str(<<"1", "1", "0", " ", "0", "0", "0", ",", "0", "0", " ", "€">>)>>)
\* every cell a number: the name is the number 7, the rank 1, the amount 100000
RowNumeric == Row(<<Num(7 * Scale), Num(1 * Scale), Num(90 * Scale), Num(1 * Scale),
                    Num(55 * Scale), Num(2 * Scale), Num(35 * Scale), Num(100000 * Scale)>>)
\* a rank cell that does not parse and no further cell
RowBadRank == Row(<<Str(<<"G", "a", "m", "m", "a">>), Str(<<"x">>)>>)
\* a labelled VAT rate in column H, and no second cell
RowTva == Row(<<Str(<<"T", "a", "u", "x", " ", "T", "V", "A">>), Undef, Undef, Undef,
                Undef, Undef, Undef, Str(<<"2", "0", "%">>)>>)

\* sheet_to_json(sheet, {header: 1}) gives an array, possibly empty, for every row
RowPool == {RowHeader, RowEmpty, RowMarker, RowAcme, RowBeta, RowNumeric,
            RowBadRank, RowTva}

(***************************************************************************)
(* 2. Extract Metadata                                                     *)
(***************************************************************************)
\* rows of an offer table: ranks that read as negative and as zero, a row without
\* rank, a row without name
RowNegativeRank == Row(<<Str(<<"D", "e", "l", "t", "a">>), Str(<<"-", "3">>)>>)
RowZeroRank == Row(<<Str(<<"Z", "e", "t", "a">>), Str(<<"0">>)>>)
RowNoRank == Row(<<Str(<<"E", "p", "s", "i", "l", "o", "n">>), Undef, Str(<<"7", "0">>)>>)
RowNoName == Row(<<Undef, Str(<<"2">>), Str(<<"6", "0">>)>>)
OfferRowPool ==
    {RowAcme, RowBeta, RowBadRank, RowNegativeRank, RowZeroRank, RowNoRank,
     RowNoName, RowEmpty, RowMarker}

\* rows of an offer table with a rank and a gross amount: negative, zero, positive
AmountRow(name, rank, amount) ==
    Row(<<Str(name), Str(rank), Undef, Undef, Undef, Undef, Undef, Str(amount)>>)
StatRowPool ==
    {AmountRow(<<"N", "1">>, <<"1">>, <<"-", "1", "0", "0">>),
     AmountRow(<<"N", "2">>, <<"2">>, <<"-", "1", "0", "0">>),
     AmountRow(<<"Z", "1">>, <<"1">>, <<"0">>),
     AmountRow(<<"Z", "2">>, <<"2">>, <<"0", ",", "0", "0", " ", "€">>),
     AmountRow(<<"P", "1">>, <<"1">>, <<"1", "0", "0">>),
     AmountRow(<<"P", "2">>, <<"2">>, <<"1", "0", "0", ",", "0", "0", " ", "€">>),
     AmountRow(<<"Q", "1">>, <<"1">>, <<"2", "5", "0">>),
     AmountRow(<<"Q", "3">>, <<"3">>, <<"2", "5", "0", ",", "5">>),
     RowBadRank}

VatRow == 8
VatCol == 7
MetadataRows == 20

\* rows of a metadata block: labels with and without a value beside them
RowBuyer == Row(<<Str(<<"A", "c", "h", "e", "t", "e", "u", "r">>), Str(<<"M", "i", "n", "i", "s", "t", "è", "r", "e", " ", "X">>)>>)
RowBuyerAlone == Row(<<Str(<<"A", "c", "h", "e", "t", "e", "u", "r">>)>>)
RowBuyerRight == Row(<<Undef, Str(<<"A", "C", "H", "E", "T", "E", "U", "R">>), Str(<<"V", "i", "l", "l", "e", " ", "Y">>)>>)
RowConsultation == Row(<<Str(<<"C", "o", "n", "s", "u", "l", "t", "a", "t", "i", "o", "n">>), Str(<<"2", "0", "2", "4", "-", "1", "7">>), Str(<<"A", "O", "O", "-", "2", "4">>)>>)
RowTvaNumber == Row(<<Str(<<"T", "a", "u", "x", " ", "T", "V", "A">>), Num(5 * Scale + 500)>>)
RowTvaText == Row(<<Str(<<"T", "V", "A">>), Str(<<"a", "b", "c">>), Str(<<"1", "0", "%">>)>>)
RowDescription == Row(<<Str(<<"D", "e", "s", "c", "r", "i", "p", "t", "i", "o", "n">>), Str(<<"T", "r", "a", "v", "a", "u", "x">>)>>)
RowRequester == Row(<<Str(<<"D", "e", "m", "a", "n", "d", "e", "u", "r">>), Str(<<"D", "S", "I">>)>>)
RowTechnician == Row(<<Str(<<"V", "a", "l", "i", "d", "e", "u", "r", " ", "t", "e", "c", "h", "n", "i", "q", "u", "e">>), Str(<<"M", ".", " ", "D", "u", "p", "o", "n", "t">>)>>)
RowDelay == Row(<<Str(<<"D", "é", "l", "a", "i", " ", "d", "e", " ", "v", "a", "l", "i", "d", "i", "t", "é">>), Str(<<"9", "0", " ", "j", "o", "u", "r", "s">>)>>)
RowDelayAlone == Row(<<Undef, Str(<<"D", "É", "L", "A", "I">>)>>)
MetadataRowPool ==
    {RowBuyer, RowBuyerAlone, RowBuyerRight, RowConsultation, RowDescription,
     RowRequester, RowTechnician, RowDelay, RowDelayAlone, RowTvaNumber, RowTvaText,
     RowEmpty}

\* a row whose cell of column VatCol is c, the cells before it empty
VatCellRow(c) == Row([j \in 1..(VatCol + 1) |-> IF j = VatCol + 1 THEN c ELSE Undef])

\* what row VatRow may be: without the cell, or with a text or a number in it
VatRowPool ==
    {RowEmpty, RowTva, VatCellRow(Num(5 * Scale + 500)), VatCellRow(Num(200)),
     VatCellRow(Str(<<"0", "%">>)), VatCellRow(Str(<<"n", "/", "a">>))}

KwConsultation == <<"c", "o", "n", "s", "u", "l", "t", "a", "t", "i", "o", "n">>
KwDescription == <<"d", "e", "s", "c", "r", "i", "p", "t", "i", "o", "n">>
KwAcheteur == <<"a", "c", "h", "e", "t", "e", "u", "r">>
KwDemandeur == <<"d", "e", "m", "a", "n", "d", "e", "u", "r">>
KwValideur == <<"v", "a", "l", "i", "d", "e", "u", "r">>
KwDelai == <<"d", "é", "l", "a", "i">>
KwTva == <<"t", "v", "a">>
KwAOO == <<"A", "O", "O">>
KwRaisonSociale == <<"r", "a", "i", "s", "o", "n", " ", "s", "o", "c", "i", "a", "l", "e">>
KwCalculDesGains == <<"c", "a", "l", "c", "u", "l", " ", "d", "e", "s", " ", "g", "a", "i", "n", "s">>

\* the index (from 0) of the first cell satisfying P, -1 when there is none
findIndex(row, P(_)) ==
    IF \E j \in 1..Len(row.cells) : P(row.cells[j])
    THEN (CHOOSE j \in 1..Len(row.cells) :
              P(row.cells[j]) /\ \A k \in 1..(j - 1) : ~P(row.cells[k])) - 1
    ELSE -1

\* the explicit cell H9: `jsonData[8][7]` throws when jsonData[8] is a hole
\* the cell read one column too far
FixedVatNextColumn(grid) ==
    IF Len(grid) > VatRow
    THEN IF ~rowAt(grid, VatRow).present
         THEN [threw |-> TRUE, vatRate |-> 0]
         ELSE IF cellAt(rowAt(grid, VatRow), VatCol + 1) # Undef
              THEN [threw |-> FALSE,
                    vatRate |-> parsePercentage(cellAt(rowAt(grid, VatRow), VatCol + 1))]
              ELSE [threw |-> FALSE, vatRate |-> 0]
    ELSE [threw |-> FALSE, vatRate |-> 0]

FixedVat(grid) ==
    IF Len(grid) > VatRow
    THEN IF ~rowAt(grid, VatRow).present
         THEN [threw |-> TRUE, vatRate |-> 0]
         ELSE IF cellAt(rowAt(grid, VatRow), VatCol) # Undef
              THEN [threw |-> FALSE,
                    vatRate |-> parsePercentage(cellAt(rowAt(grid, VatRow), VatCol))]
              ELSE [threw |-> FALSE, vatRate |-> 0]
    ELSE [threw |-> FALSE, vatRate |-> 0]

\* the value always taken from column 1
getValueColumnOne(row, keyword) ==
    IF Truthy(cellAt(row, 1)) THEN cellToString(cellAt(row, 1)) ELSE <<>>

\* the value next to a label
getValue(row, keyword) ==
    LET idx == findIndex(row, LAMBDA c : cellHasKeyword(c, keyword))
    IN  IF idx # -1 /\ Truthy(cellAt(row, idx + 1))
        THEN cellToString(cellAt(row, idx + 1))
        ELSE IF cellHasKeyword(cellAt(row, 0), keyword) /\ Truthy(cellAt(row, 1))
             THEN cellToString(cellAt(row, 1))
             ELSE <<>>

\* row.find(c => c && c.toString().includes('AOO')) || getValue('consultation') || ''
consultationValue(row) ==
    LET idx == findIndex(row, LAMBDA c : Truthy(c) /\ includes(cellToString(c), KwAOO))
    IN  IF idx # -1 THEN cellToString(cellAt(row, idx)) ELSE getValue(row, KwConsultation)

\* the cell the TVA fallback picks: the first number, or text that has a '%' or parses
tvaCell(row) ==
    LET idx == findIndex(row, LAMBDA c :
                   \/ c.t = "num"
                   \/ c.t = "str" /\ (includes(c.s, <<"%">>) \/ ~parseFloat(c.s).nan))
    IN  IF idx # -1 THEN cellAt(row, idx) ELSE Undef

\* row.join(' ').toLowerCase()
rowStrOf(row) == toLowerCase(joinCells(row.cells))

LabelKeywords == {KwConsultation, KwDescription, KwAcheteur, KwDemandeur, KwValideur,
                  KwDelai, KwTva}

\* rowStr.includes(kw), computed once for each row of the pool and each label keyword
rowStrIncludesMemo ==
    [r \in RowPool \cup OfferRowPool \cup MetadataRowPool \cup VatRowPool \cup StatRowPool |->
        {kw \in LabelKeywords : includes(rowStrOf(r), kw)}]

\* rowStr.includes(kw)
rowStrIncludes(row, kw) ==
    IF row \in DOMAIN rowStrIncludesMemo /\ kw \in LabelKeywords
    THEN kw \in rowStrIncludesMemo[row]
    ELSE includes(rowStrOf(row), kw)

\* a later row with the keyword overwrites the field
ScanRowOverwrite(md, row) ==
    IF ~row.present THEN md
    ELSE
    LET hit(kw, cur) == rowStrIncludes(row, kw)
        vatHit == md.vatRate = 0 /\ rowStrIncludes(row, KwTva) /\ Truthy(tvaCell(row))
    IN  [consultationNo |-> IF hit(KwConsultation, md.consultationNo)
                            THEN consultationValue(row) ELSE md.consultationNo,
         description |-> IF hit(KwDescription, md.description)
                         THEN getValue(row, KwDescription) ELSE md.description,
         buyer |-> IF hit(KwAcheteur, md.buyer)
                   THEN getValue(row, KwAcheteur) ELSE md.buyer,
         requester |-> IF hit(KwDemandeur, md.requester)
                       THEN getValue(row, KwDemandeur) ELSE md.requester,
         technician |-> IF hit(KwValideur, md.technician)
                        THEN getValue(row, KwValideur) ELSE md.technician,
         decisionDate |-> IF hit(KwDelai, md.decisionDate)
                          THEN getValue(row, KwDelai) ELSE md.decisionDate,
         vatRate |-> IF vatHit THEN parsePercentage(tvaCell(row)) ELSE md.vatRate]

\* one iteration of the heuristic loop over the first rows
ScanRow(md, row) ==
    IF ~row.present THEN md
    ELSE
    LET hit(kw, cur) == rowStrIncludes(row, kw) /\ cur = <<>>
        vatHit == md.vatRate = 0 /\ rowStrIncludes(row, KwTva) /\ Truthy(tvaCell(row))
    IN  [consultationNo |-> IF hit(KwConsultation, md.consultationNo)
                            THEN consultationValue(row) ELSE md.consultationNo,
         description |-> IF hit(KwDescription, md.description)
                         THEN getValue(row, KwDescription) ELSE md.description,
         buyer |-> IF hit(KwAcheteur, md.buyer)
                   THEN getValue(row, KwAcheteur) ELSE md.buyer,
         requester |-> IF hit(KwDemandeur, md.requester)
                       THEN getValue(row, KwDemandeur) ELSE md.requester,
         technician |-> IF hit(KwValideur, md.technician)
                        THEN getValue(row, KwValideur) ELSE md.technician,
         decisionDate |-> IF hit(KwDelai, md.decisionDate)
                          THEN getValue(row, KwDelai) ELSE md.decisionDate,
         vatRate |-> IF vatHit THEN parsePercentage(tvaCell(row)) ELSE md.vatRate]

RECURSIVE ScanRowsOneMore(_, _, _)
\* the loop run over one row more
ScanRowsOneMore(grid, i, md) ==
    IF i <= MetadataRows /\ i < Len(grid)
    THEN ScanRowsOneMore(grid, i + 1, ScanRow(md, rowAt(grid, i)))
    ELSE md

RECURSIVE ScanRows(_, _, _)
\* for (let i = 0; i < 20 && i < jsonData.length; i++)
ScanRows(grid, i, md) ==
    IF i < MetadataRows /\ i < Len(grid)
    THEN ScanRows(grid, i + 1, ScanRow(md, rowAt(grid, i)))
    ELSE md

\* the metadata stage: [threw, metadata]
ExtractMetadata(grid) ==
    LET fixed == FixedVat(grid)
    IN  IF fixed.threw
        THEN [threw |-> TRUE, metadata |-> EmptyMetadata]
        ELSE [threw |-> FALSE,
              metadata |-> ScanRows(grid, 0,
                                    [EmptyMetadata EXCEPT !.vatRate = fixed.vatRate])]

(***************************************************************************)
(* 3. Find Table Start                                                     *)
(***************************************************************************)
\* row && row.some(cell => cell && cell.toString().toLowerCase().includes('raison sociale'))
isHeaderRow(row) ==
    row.present /\ \E j \in 1..Len(row.cells) : cellHasKeyword(row.cells[j], KwRaisonSociale)

\* the loop without its break: the last header row, not the first
findHeaderRowIndexLast(grid) ==
    IF \E i \in 1..Len(grid) : isHeaderRow(grid[i])
    THEN (CHOOSE i \in 1..Len(grid) :
              isHeaderRow(grid[i]) /\ \A k \in (i + 1)..Len(grid) : ~isHeaderRow(grid[k])) - 1
    ELSE -1

\* the index (from 0) of the first header row, -1 when the loop finds none
findHeaderRowIndex(grid) ==
    IF \E i \in 1..Len(grid) : isHeaderRow(grid[i])
    THEN (CHOOSE i \in 1..Len(grid) :
              isHeaderRow(grid[i]) /\ \A k \in 1..(i - 1) : ~isHeaderRow(grid[k])) - 1
    ELSE -1

(***************************************************************************)
(* 4. Extract Offers                                                       *)
(***************************************************************************)
\* !row || row.length === 0 || !row[0] || row[0]...includes('calcul des gains')
stopsScan(row) ==
    \/ ~row.present
    \/ Len(row.cells) = 0
    \/ ~Truthy(cellAt(row, 0))
    \/ includes(toLowerCase(cellToString(cellAt(row, 0))), KwCalculDesGains)

\* the object pushed for a data row
makeOffer(row, currentRow) ==
    [id |-> currentRow,
     name |-> cellAt(row, 0),
     rankFinal |-> parseIntOrZero(cellAt(row, 1)),
     scoreFinal |-> parseScore(cellAt(row, 2)),
     rankFinancial |-> parseIntOrZero(cellAt(row, 3)),
     scoreFinancial |-> parseScore(cellAt(row, 4)),
     rankTechnical |-> parseIntOrZero(cellAt(row, 5)),
     scoreTechnical |-> parseScore(cellAt(row, 6)),
     amountTTC |-> parseCurrency(cellAt(row, 7))]

RECURSIVE extractFrom(_, _, _)
\* while (currentRow < jsonData.length) { ... currentRow++ }
extractFrom(grid, currentRow, offers) ==
    IF currentRow < Len(grid)
    THEN LET row == rowAt(grid, currentRow)
         IN  IF stopsScan(row) THEN offers
             ELSE extractFrom(grid, currentRow + 1,
                              IF Truthy(cellAt(row, 1))
                              THEN Append(offers, makeOffer(row, currentRow))
                              ELSE offers)
    ELSE offers

\* the scan started on the sub-header row
extractOffersFromSubHeader(grid, headerRowIndex) ==
    extractFrom(grid, headerRowIndex + 1, <<>>)

\* offers of the table whose header row is headerRowIndex
extractOffers(grid, headerRowIndex) == extractFrom(grid, headerRowIndex + 2, <<>>)

(***************************************************************************)
(* 5. Calculate Stats                                                      *)
(***************************************************************************)
RECURSIVE insertByRankUnstable(_, _)
\* a sort that is not stable: o goes before the elements of equal rank
insertByRankUnstable(sorted, o) ==
    IF sorted = <<>> THEN <<o>>
    ELSE IF sorted[1].rankFinal - o.rankFinal >= 0
         THEN <<o>> \o sorted
         ELSE <<sorted[1]>> \o insertByRankUnstable(Tail(sorted), o)

RECURSIVE insertByRank(_, _)
\* o put into a list sorted by rankFinal, after the elements that do not compare greater
insertByRank(sorted, o) ==
    IF sorted = <<>> THEN <<o>>
    ELSE IF sorted[1].rankFinal - o.rankFinal > 0
         THEN <<o>> \o sorted
         ELSE <<sorted[1]>> \o insertByRank(Tail(sorted), o)

RECURSIVE sortByRankFinal(_)
\* [...offers].sort((a, b) => a.rankFinal - b.rankFinal): a stable sort of a copy
sortByRankFinal(offers) ==
    IF offers = <<>> THEN <<>>
    ELSE insertByRank(sortByRankFinal(SubSeq(offers, 1, Len(offers) - 1)),
                      offers[Len(offers)])

RECURSIVE sumAmounts(_)
\* amounts.reduce((a, b) => a + b, 0)
sumAmounts(offers) ==
    IF offers = <<>> THEN 0
    ELSE sumAmounts(SubSeq(offers, 1, Len(offers) - 1)) + offers[Len(offers)].amountTTC

RECURSIVE minAmount(_)
\* Math.min(...amounts), of a non-empty list
minAmount(offers) ==
    IF Len(offers) = 1 THEN offers[1].amountTTC
    ELSE LET m == minAmount(Tail(offers))
         IN  IF offers[1].amountTTC < m THEN offers[1].amountTTC ELSE m

\* the amount of the last offer taken for the greatest
maxAmountOfLast(offers) == offers[Len(offers)].amountTTC

RECURSIVE maxAmount(_)
\* Math.max(...amounts), of a non-empty list
maxAmount(offers) ==
    IF Len(offers) = 1 THEN offers[1].amountTTC
    ELSE LET m == maxAmount(Tail(offers))
         IN  IF offers[1].amountTTC > m THEN offers[1].amountTTC ELSE m

\* the offer the statistics take for the winner
winnerOf(offers) == sortByRankFinal(offers)[1]

\* the mean taken over one element too many
averageOfOffByOne(offers) == Ratio(sumAmounts(offers), Len(offers) + 1)

\* avg = sum / length
averageOf(offers) == Ratio(sumAmounts(offers), Len(offers))

\* a default of 0 put in place of the quotient when the mean is 0
savingPercentOfDefault(sum, n, w) ==
    [kind |-> "finite", num |-> IF sum = 0 THEN 0 ELSE sum - n * w,
     den |-> IF sum = 0 THEN 1 ELSE sum]

\* ((avg - winner.amountTTC) / avg) * 100, which is 100 * num / den with
\* num = sum - n * winner and den = sum; a zero den gives NaN or an infinity
savingPercentOf(sum, n, w) ==
    [kind |-> IF sum # 0 THEN "finite"
              ELSE IF sum - n * w = 0 THEN "NaN"
              ELSE IF sum - n * w > 0 THEN "Infinity" ELSE "-Infinity",
     num |-> sum - n * w,
     den |-> sum]

\* the stats object of a non-empty list of offers
calculateStats(offers) ==
    LET winner == winnerOf(offers)
        avg == averageOf(offers)
    IN  [averageOffer |-> avg,
         minOffer |-> minAmount(offers),
         maxOffer |-> maxAmount(offers),
         selectedOfferAmount |-> winner.amountTTC,
         selectedSupplierName |-> winner.name,
         savingVsAverage |-> Ratio(avg.num - avg.den * winner.amountTTC, avg.den),
         savingPercent |-> savingPercentOf(avg.num, avg.den, winner.amountTTC)]

(***************************************************************************)
(* reader.onload: the pipeline inside try { ... } catch (err) { reject }   *)
(***************************************************************************)
Throw(err) == [threw |-> TRUE, error |-> err, result |-> NoResult]
Return(res) == [threw |-> FALSE, error |-> NoError, result |-> res]

\* offers.length === 0
noOffers(offers) == Len(offers) = 0

\* the check of an empty offer list left out: an empty result is passed to resolve
pipelineOutcomeNoEmptyCheck(m, headerRowIndex, offers) ==
    IF m.threw THEN Throw(TypeError)
    ELSE IF headerRowIndex = -1 THEN Throw(StructureError)
    ELSE Return([metadata |-> m.metadata, offers |-> offers,
                 stats |-> IF offers = <<>> THEN NoStats ELSE calculateStats(offers)])

\* one message for both failures of the table extraction
pipelineOutcomeSameMessage(m, headerRowIndex, offers) ==
    IF m.threw THEN Throw(TypeError)
    ELSE IF headerRowIndex = -1 THEN Throw(StructureError)
    ELSE IF noOffers(offers) THEN Throw(StructureError)
    ELSE Return([metadata |-> m.metadata, offers |-> offers,
                 stats |-> calculateStats(offers)])

\* a missing table answered with the metadata alone instead of an error
pipelineOutcomePartial(m, headerRowIndex, offers) ==
    IF m.threw THEN Throw(TypeError)
    ELSE IF headerRowIndex = -1
         THEN Return([metadata |-> m.metadata, offers |-> <<>>, stats |-> NoStats])
    ELSE IF noOffers(offers) THEN Throw(EmptyResultError)
    ELSE Return([metadata |-> m.metadata, offers |-> offers,
                 stats |-> calculateStats(offers)])

\* what the try block does with the stages' values: the error it throws, or the
\* value it passes to resolve
\* the sorted array handed to the caller
pipelineOutcomeSorted(m, headerRowIndex, offers) ==
    IF m.threw THEN Throw(TypeError)
    ELSE IF headerRowIndex = -1 THEN Throw(StructureError)
    ELSE IF noOffers(offers) THEN Throw(EmptyResultError)
    ELSE Return([metadata |-> m.metadata, offers |-> sortByRankFinal(offers),
                 stats |-> calculateStats(offers)])

pipelineOutcome(m, headerRowIndex, offers) ==
    IF m.threw THEN Throw(TypeError)
    ELSE IF headerRowIndex = -1 THEN Throw(StructureError)
    ELSE IF noOffers(offers) THEN Throw(EmptyResultError)
    ELSE Return([metadata |-> m.metadata, offers |-> offers,
                 stats |-> calculateStats(offers)])

(***************************************************************************)
(* The promise                                                             *)
(***************************************************************************)
Pending == [state |-> "pending", value |-> NoResult, error |-> NoError]

\* resolve(value): settles a pending promise, does nothing to a settled one
resolved(p, value) ==
    IF p.state = "pending"
    THEN [state |-> "fulfilled", value |-> value, error |-> NoError]
    ELSE p

\* reject(err)
rejected(p, err) ==
    IF p.state = "pending"
    THEN [state |-> "rejected", value |-> NoResult, error |-> err]
    ELSE p

(***************************************************************************)
(* Inputs: the grids a call is given                                       *)
(***************************************************************************)
\* rows of the body of a grid, at most
MaxRows == 4

\* k empty rows
Padding(k) == [i \in 1..k |-> RowEmpty]

\* the body starts at the top of the sheet, or at the row of the explicit VAT cell
PadChoices == {0, VatRow}

Bodies == UNION {[1..n -> RowPool] : n \in 0..MaxRows}

\* bodies in which a row may also be a hole of the outer array
SparseBodies == UNION {[1..n -> RowPool \cup {Absent}] : n \in 0..MaxRows}

(***************************************************************************)
(* parseExcelFile: one call                                                *)
(***************************************************************************)
NotCalled == [done |-> FALSE, v |-> 0]

\* `let sheetName` before the selection
NoSheetName == [chosen |-> FALSE, name |-> <<>>]

\* no call of parsePercentage is under way
PctIdle == pctVal = Undef /\ pctRes = NotCalled

\* no call of the other helpers is under way
CurIdle == curVal = Undef /\ curRes = NotCalled

\* no workbook is open
SheetIdle == SheetNames = <<>> /\ sheetName = NoSheetName /\ sheetsRead = <<>>

\* no concurrent calls are under way
ConcIdle == calls = <<>>

\* useState(false), useState(0), useState(null) of FileUpload
InitialView == [loading |-> FALSE, progress |-> 0, error |-> ""]

\* the upload view as mounted, no file submitted
UiIdle ==
    /\ uploads = <<>>
    /\ view = InitialView
    /\ analysisData = NoResult
    /\ timeouts = <<>>
    /\ completeCalls = <<>>

AuxIdle == CurIdle /\ SheetIdle /\ ConcIdle /\ UiIdle

\* no call of parseExcelFile is under way
CallIdle ==
    /\ jsonData = <<>>
    /\ reader = "done"
    /\ promise = Pending
    /\ resolveCalls = 0
    /\ rejectCalls = 0

\* reader.readAsArrayBuffer(file) has been called; the file holds the grid
Reading(grid) ==
    /\ jsonData = grid
    /\ reader = "loading"
    /\ promise = Pending
    /\ resolveCalls = 0
    /\ rejectCalls = 0
    /\ PctIdle
    /\ AuxIdle

Init == \E k \in PadChoices, body \in Bodies : Reading(Padding(k) \o body)

InitSparse == \E k \in PadChoices, body \in SparseBodies : Reading(Padding(k) \o body)

\* reader.onload: the stages run in order on the grid, their values held in the
\* handler's local constants (metadata, headerRowIndex, offers)
OnLoad ==
    /\ reader = "loading"
    /\ reader' = "done"
    /\ \E m \in {ExtractMetadata(jsonData)}, headerRowIndex \in {findHeaderRowIndex(jsonData)} :
         \E offers \in {IF headerRowIndex = -1 THEN <<>>
                        ELSE extractOffers(jsonData, headerRowIndex)} :
           \E r \in {pipelineOutcome(m, headerRowIndex, offers)} :
             IF r.threw
             THEN /\ promise' = rejected(promise, r.error)
                  /\ rejectCalls' = rejectCalls + 1
                  /\ UNCHANGED resolveCalls
             ELSE /\ promise' = resolved(promise, r.result)
                  /\ resolveCalls' = resolveCalls + 1
                  /\ UNCHANGED rejectCalls
    /\ UNCHANGED <<jsonData, pctVars, auxVars>>

\* reader.onerror
OnError ==
    /\ reader = "loading"
    /\ reader' = "done"
    /\ promise' = rejected(promise, ReadError)
    /\ rejectCalls' = rejectCalls + 1
    /\ UNCHANGED <<jsonData, resolveCalls, pctVars, auxVars>>

Next == OnLoad \/ OnError

Spec == Init /\ [][Next]_vars

\* the same call on a grid that may have holes for rows
SpecSparse == InitSparse /\ [][Next]_vars

(***************************************************************************)
(* parsePercentage: one call on one value                                  *)
(***************************************************************************)
\* numeric arguments range over the thousandths up to this many, either sign
MaxMilli == 1200

\* Products x * 100 that end in .5 are left out: there the result rests on the
\* binary rounding of the multiplication, which fixed point does not have.
PercentNumbers ==
    {n \in (-MaxMilli)..MaxMilli : n % 10 # 5} \cup {5 * Scale + 500, 20 * Scale}

PercentTexts ==
    {<<"2", "0", "%">>, <<"0", ",", "2">>, <<"2", "0">>, <<"a", "b", "c">>, <<>>,
     <<" ", "2", "0", " ">>, <<"5", ",", "5", " ", "%">>, <<"-", "0", ",", "5">>,
     <<"0", ".", "1", "9", "6">>, <<"%">>, <<"2", "0", " ", "%">>}

PercentInputs ==
    {Num(n) : n \in PercentNumbers} \cup {Str(s) : s \in PercentTexts} \cup {Undef}

InitPercentage ==
    /\ pctVal \in PercentInputs
    /\ pctRes = NotCalled
    /\ CallIdle
    /\ AuxIdle

CallParsePercentage ==
    /\ ~pctRes.done
    /\ pctRes' = [done |-> TRUE, v |-> parsePercentage(pctVal)]
    /\ UNCHANGED <<callVars, pctVal, auxVars>>

NextPercentage == CallParsePercentage

SpecPercentage == InitPercentage /\ [][NextPercentage]_vars

(***************************************************************************)
(* parseCurrency: one call                                                 *)
(***************************************************************************)
TextAmount == <<"1", " ", "0", "3", "6", " ", "5", "9", "3", ",", "6", "2", " ", "€">>
TextAmountNbsp == <<"1", "nbsp", "0", "0", "0", ",", "5", "nbsp", "€">>

CurrencyNumbers ==
    (-MaxMilli)..MaxMilli \cup {120000 * Scale, 1036593 * Scale + 620}

CurrencyTexts ==
    {TextAmount, TextAmountNbsp, <<"1", "2", "0", " ", "0", "0", "0", ",", "0", "0", " ", "€">>, <<>>, <<"a", "b", "c">>,
     <<"€">>, <<"1", "0", "3", "6", "5", "9", "3", ".", "6", "2">>, <<"1", "2", ",", "5">>, <<"-", "7", ",", "2", "5", " ", "€">>,
     <<"€", " ", "4", "5">>, <<"0">>, <<" ">>, <<"$", " ", "1", "0", "0">>, <<"1", "2", " ", "a", "b", "c">>}

CurrencyInputs ==
    {Num(n) : n \in CurrencyNumbers} \cup {Str(s) : s \in CurrencyTexts} \cup {Undef}

InitCurrency ==
    /\ curVal \in CurrencyInputs
    /\ curRes = NotCalled
    /\ CallIdle
    /\ PctIdle
    /\ SheetIdle
    /\ ConcIdle
    /\ UiIdle

CallParseCurrency ==
    /\ ~curRes.done
    /\ curRes' = [done |-> TRUE, v |-> parseCurrency(curVal)]
    /\ UNCHANGED <<callVars, pctVars, curVal, sheetVars, calls, uiVars>>

NextCurrency == CallParseCurrency

SpecCurrency == InitCurrency /\ [][NextCurrency]_vars

(***************************************************************************)
(* The workbook: sheet selection                                           *)
(***************************************************************************)
KwAN01 == <<"A", "N", "0", "1">>

NameAN01 == <<"A", "N", "0", "1">>
NameLower == <<"a", "n", "0", "1", " ", "l", "o", "t", " ", "2">>
NameInside == <<"L", "o", "t", " ", "A", "n", "0", "1">>
NameOther == <<"S", "y", "n", "t", "h", "e", "s", "e">>
NameNearMiss == <<"A", "N", "0", " ", "1">>
SheetNamePool == {NameAN01, NameLower, NameInside, NameOther, NameNearMiss}

\* sheets of a workbook, at most
MaxSheets == 3

\* the name sensitive to case
findSheetNameCaseSensitive(names) ==
    IF \E i \in 1..Len(names) : includes(names[i], KwAN01)
    THEN [found |-> TRUE,
          name |-> names[CHOOSE i \in 1..Len(names) :
                             /\ includes(names[i], KwAN01)
                             /\ \A j \in 1..(i - 1) : ~includes(names[j], KwAN01)]]
    ELSE [found |-> FALSE, name |-> <<>>]

\* workbook.SheetNames.find(n => n.toUpperCase().includes('AN01'))
findSheetName(names) ==
    IF \E i \in 1..Len(names) : includes(toUpperCase(names[i]), KwAN01)
    THEN [found |-> TRUE,
          name |-> names[CHOOSE i \in 1..Len(names) :
                             /\ includes(toUpperCase(names[i]), KwAN01)
                             /\ \A j \in 1..(i - 1) :
                                    ~includes(toUpperCase(names[j]), KwAN01)]]
    ELSE [found |-> FALSE, name |-> <<>>]

\* if (!sheetName) sheetName = workbook.SheetNames[0]
selectSheetName(names) ==
    LET f == findSheetName(names)
    IN  IF f.found /\ f.name # <<>> THEN f.name ELSE names[1]

\* workbook.Sheets[name] through sheet_to_json: each sheet holds a table whose one
\* offer bears the sheet's name, so that the grid tells the sheet it was built from
SheetGrid(name) ==
    <<RowHeader, RowEmpty,
      Row(<<Str(name), Str(<<"1">>), Str(<<"9", "0">>), Str(<<"1">>), Str(<<"5", "0">>),
            Str(<<"1">>), Str(<<"4", "0">>), Num(100 * Scale)>>)>>

\* the workbooks: distinct sheet names, in any order
Workbooks ==
    {names \in UNION {[1..n -> SheetNamePool] : n \in 1..MaxSheets} :
        \A i, j \in 1..Len(names) : i # j => names[i] # names[j]}

InitWorkbook ==
    /\ SheetNames \in Workbooks
    /\ sheetName = NoSheetName
    /\ sheetsRead = <<>>
    /\ jsonData = <<>>
    /\ reader = "loading"
    /\ promise = Pending
    /\ resolveCalls = 0
    /\ rejectCalls = 0
    /\ PctIdle
    /\ CurIdle
    /\ ConcIdle
    /\ UiIdle

\* reader.onload, from the workbook on: the sheet is chosen, its grid built, and the
\* stages run on that grid
OnLoadWorkbook ==
    /\ reader = "loading"
    /\ SheetNames # <<>>
    /\ reader' = "done"
    /\ \E name \in {selectSheetName(SheetNames)} :
         /\ sheetName' = [chosen |-> TRUE, name |-> name]
         /\ sheetsRead' = Append(sheetsRead, name)
         /\ jsonData' = SheetGrid(name)
         /\ \E m \in {ExtractMetadata(SheetGrid(name))},
               headerRowIndex \in {findHeaderRowIndex(SheetGrid(name))} :
              \E offers \in {IF headerRowIndex = -1 THEN <<>>
                             ELSE extractOffers(SheetGrid(name), headerRowIndex)} :
                \E r \in {pipelineOutcome(m, headerRowIndex, offers)} :
                  IF r.threw
                  THEN /\ promise' = rejected(promise, r.error)
                       /\ rejectCalls' = rejectCalls + 1
                       /\ UNCHANGED resolveCalls
                  ELSE /\ promise' = resolved(promise, r.result)
                       /\ resolveCalls' = resolveCalls + 1
                       /\ UNCHANGED rejectCalls
    /\ UNCHANGED <<SheetNames, pctVars, curVars, calls, uiVars>>

NextWorkbook == OnLoadWorkbook \/ OnError

SpecWorkbook == InitWorkbook /\ [][NextWorkbook]_vars

(***************************************************************************)
(* Concurrent calls of parseExcelFile                                      *)
(***************************************************************************)
\* calls under way together
MaxCalls == 2

CallIds == 1..MaxCalls

\* the grids of the files the calls are given
ConcurrentGrids ==
    {<<RowHeader, RowEmpty, RowAcme>>,
     <<RowHeader, RowEmpty, RowBeta, RowAcme>>,
     <<RowHeader, RowEmpty, RowNumeric>>,
     <<RowHeader, RowEmpty>>,
     <<RowAcme>>}

RECURSIVE FulfilledOffers(_, _)
\* the offers handed out so far by the calls 1..k that were fulfilled
FulfilledOffers(cs, k) ==
    IF k = 0 THEN <<>>
    ELSE FulfilledOffers(cs, k - 1)
         \o (IF cs[k].promise.state = "fulfilled" THEN cs[k].promise.value.offers
             ELSE <<>>)

\* an array kept across calls
newOffersShared(earlier) == earlier

\* `const offers: SupplierOffer[] = []`: each run of onload makes an array of its
\* own, whatever earlier runs gathered
newOffers(earlier) == <<>>

InitConcurrent ==
    /\ calls \in [CallIds -> {[jsonData |-> g, reader |-> "loading", promise |-> Pending] :
                                 g \in ConcurrentGrids}]
    /\ CallIdle
    /\ PctIdle
    /\ CurIdle
    /\ SheetIdle
    /\ UiIdle

\* reader.onload of call c: a run to completion on the call's own grid
OnLoadOf(c) ==
    /\ calls[c].reader = "loading"
    /\ \E grid \in {calls[c].jsonData} :
        \E m \in {ExtractMetadata(grid)}, headerRowIndex \in {findHeaderRowIndex(grid)} :
          \E offers \in {IF headerRowIndex = -1 THEN <<>>
                         ELSE extractFrom(grid, headerRowIndex + 2,
                                          newOffers(FulfilledOffers(calls, MaxCalls)))} :
            \E r \in {pipelineOutcome(m, headerRowIndex, offers)} :
              calls' = [calls EXCEPT
                          ![c] = [jsonData |-> grid, reader |-> "done",
                                  promise |-> IF r.threw
                                              THEN rejected(@.promise, r.error)
                                              ELSE resolved(@.promise, r.result)]]
    /\ UNCHANGED <<callVars, pctVars, curVars, sheetVars, uiVars>>

\* reader.onerror of call c
OnErrorOf(c) ==
    /\ calls[c].reader = "loading"
    /\ calls' = [calls EXCEPT ![c] = [jsonData |-> @.jsonData, reader |-> "done",
                                      promise |-> rejected(@.promise, ReadError)]]
    /\ UNCHANGED <<callVars, pctVars, curVars, sheetVars, uiVars>>

NextConcurrent == \E c \in CallIds : OnLoadOf(c) \/ OnErrorOf(c)

SpecConcurrent == InitConcurrent /\ [][NextConcurrent]_vars

(***************************************************************************)
(* Inputs: grids with a metadata block above a valid offer table           *)
(***************************************************************************)
\* rows of the metadata block, at most
MaxMetadataRows == 2

MetadataBlocks == UNION {[1..n -> MetadataRowPool] : n \in 0..MaxMetadataRows}

\* the block, empty rows down to row VatRow, that row, and a table with one offer
MetadataGrid(block, vatRow) ==
    block \o Padding(VatRow - Len(block)) \o <<vatRow, RowHeader, RowEmpty, RowAcme>>

\* the block where the heuristic loop ends: its first row is the last row scanned
LateMetadataGrid(block) ==
    Padding(MetadataRows - 1) \o block \o <<RowHeader, RowEmpty, RowAcme>>

InitMetadata ==
    \E block \in MetadataBlocks :
        \/ \E vatRow \in VatRowPool : Reading(MetadataGrid(block, vatRow))
        \/ Reading(LateMetadataGrid(block))

SpecMetadata == InitMetadata /\ [][Next]_vars

(***************************************************************************)
(* Inputs: offer tables                                                    *)
(***************************************************************************)
\* rows below the sub-header, at most
MaxOfferRows == 3

OfferBodies == UNION {[1..n -> OfferRowPool] : n \in 0..MaxOfferRows}

\* the label row at the top or below one empty row, a sub-header that is empty or
\* looks like an offer, and the rows below it
InitOffers ==
    \E lead \in {0, 1}, sub \in {RowEmpty, RowBeta}, body \in OfferBodies :
        Reading(Padding(lead) \o <<RowHeader, sub>> \o body)

SpecOffers == InitOffers /\ [][Next]_vars

(***************************************************************************)
(* Inputs: offer tables told apart by their gross amounts                  *)
(***************************************************************************)
\* rows below the sub-header, at most
MaxStatRows == 3

StatBodies == UNION {[1..n -> StatRowPool] : n \in 1..MaxStatRows}

InitStats == \E body \in StatBodies : Reading(<<RowHeader, RowEmpty>> \o body)

SpecStats == InitStats /\ [][Next]_vars

(***************************************************************************)
(* FileUpload.processFile and App: the upload view                         *)
(***************************************************************************)
\* files submitted to the upload view, at most
MaxUploads == 2

\* the sheets of the files: two valid tables, a sheet without label row, a table
\* without offers
UploadGrids ==
    {<<RowHeader, RowEmpty, RowAcme>>,
     <<RowHeader, RowEmpty, RowBeta>>,
     <<RowAcme>>,
     <<RowHeader, RowEmpty>>}

\* Math.random() * 10 + 5, a number from 5 up to 15
RandomIncrements == {5, 10}

DefaultMessage == "Erreur lors de l'analyse du fichier."

\* FileUpload is rendered by App while analysisData is null
Mounted == analysisData = NoResult

\* a state setter of FileUpload: without effect once the view is unmounted
setView(v) == IF Mounted THEN v ELSE view

\* err.message || "Erreur lors de l'analyse du fichier."
errorText(err) == IF err.message = "" THEN DefaultMessage ELSE err.message

\* the catch block of processFile
catchView(err) == setView([loading |-> FALSE, progress |-> 0, error |-> errorText(err)])

\* the interval is running: set at the start of processFile, cleared once the
\* parse has settled
IntervalRunning(c) == uploads[c].pc \in {"delay", "parsing"}

\* handleDrop / handleChange: processFile(file) up to its first await
ProcessFile ==
    /\ Mounted
    /\ Len(uploads) < MaxUploads
    /\ \E grid \in UploadGrids :
        uploads' = Append(uploads, [file |-> grid, pc |-> "delay", promise |-> Pending])
    /\ view' = [loading |-> TRUE, progress |-> 0, error |-> ""]
    /\ UNCHANGED <<analysisData, timeouts, completeCalls>>
    /\ UNCHANGED <<callVars, pctVars, curVars, sheetVars, calls>>

\* the callback of setInterval(..., 200) of upload c
Tick(c) ==
    /\ IntervalRunning(c)
    /\ \E inc \in RandomIncrements :
        view' = setView([view EXCEPT !.progress =
                            IF @ >= 90 THEN @
                            ELSE IF @ + inc > 90 THEN 90 ELSE @ + inc])
    /\ UNCHANGED <<uploads, analysisData, timeouts, completeCalls>>
    /\ UNCHANGED <<callVars, pctVars, curVars, sheetVars, calls>>

\* the 300 ms delay of upload c is over: parseExcelFile(file) starts the reader.
\* Timeouts of one delay fire in the order they were set.
AfterDelay(c) ==
    /\ uploads[c].pc = "delay"
    /\ \A d \in 1..(c - 1) : uploads[d].pc # "delay"
    /\ uploads' = [uploads EXCEPT ![c].pc = "parsing"]
    /\ UNCHANGED <<view, analysisData, timeouts, completeCalls>>
    /\ UNCHANGED <<callVars, pctVars, curVars, sheetVars, calls>>

\* the promise of upload c settles with outcome r and processFile runs on from its
\* await: lines 37-43 after a result, the catch block after an error
Settle(c, r) ==
    IF r.threw
    THEN /\ uploads' = [uploads EXCEPT ![c].pc = "failed",
                                       ![c].promise = rejected(@, r.error)]
         /\ view' = catchView(r.error)
         /\ UNCHANGED timeouts
    ELSE /\ uploads' = [uploads EXCEPT ![c].pc = "waiting",
                                       ![c].promise = resolved(@, r.result)]
         /\ view' = setView([view EXCEPT !.progress = 100])
         /\ timeouts' = Append(timeouts, [upload |-> c, after |-> Len(uploads)])

\* reader.onload of upload c
OnLoadUpload(c) ==
    /\ uploads[c].pc = "parsing"
    /\ \E grid \in {uploads[c].file} :
        \E m \in {ExtractMetadata(grid)}, headerRowIndex \in {findHeaderRowIndex(grid)} :
          \E offers \in {IF headerRowIndex = -1 THEN <<>>
                         ELSE extractOffers(grid, headerRowIndex)} :
            \E r \in {pipelineOutcome(m, headerRowIndex, offers)} : Settle(c, r)
    /\ UNCHANGED <<analysisData, completeCalls>>
    /\ UNCHANGED <<callVars, pctVars, curVars, sheetVars, calls>>

\* reader.onerror of upload c
OnErrorUpload(c) ==
    /\ uploads[c].pc = "parsing"
    /\ Settle(c, Throw(ReadError))
    /\ UNCHANGED <<analysisData, completeCalls>>
    /\ UNCHANGED <<callVars, pctVars, curVars, sheetVars, calls>>

\* the oldest 600 ms timeout fires: onAnalysisComplete(result), which is
\* setAnalysisData of App. A 300 ms delay that was set before it has fired before.
CompletionTimeout ==
    /\ timeouts # <<>>
    /\ \A d \in 1..Head(timeouts).after : uploads[d].pc # "delay"
    /\ \E c \in {Head(timeouts).upload} :
        /\ analysisData' = uploads[c].promise.value
        /\ uploads' = [uploads EXCEPT ![c].pc = "completed"]
        /\ completeCalls' = Append(completeCalls, c)
    /\ timeouts' = Tail(timeouts)
    /\ UNCHANGED view
    /\ UNCHANGED <<callVars, pctVars, curVars, sheetVars, calls>>

InitUpload == CallIdle /\ PctIdle /\ AuxIdle

NextUpload ==
    \/ ProcessFile
    \/ CompletionTimeout
    \/ \E c \in DOMAIN uploads :
        Tick(c) \/ AfterDelay(c) \/ OnLoadUpload(c) \/ OnErrorUpload(c)

SpecUpload == InitUpload /\ [][NextUpload]_vars

(***************************************************************************)
(* Properties                                                              *)
(***************************************************************************)
\* the value a fulfilled promise carries
Result == promise.value

\* the handler that ran is onload
Loaded == reader = "done" /\ promise.error # ReadError

\* a cell whose text, lowercased, has the supplier-name label
MentionsRaisonSociale(c) ==
    c.t = "str" /\ includes(toLowerCase(c.s), KwRaisonSociale)

\* row i (from 0) of the grid has such a cell
LabelRow(grid, i) ==
    /\ rowAt(grid, i).present
    /\ \E j \in 1..Len(rowAt(grid, i).cells) : MentionsRaisonSociale(rowAt(grid, i).cells[j])

HasLabelRow(grid) == \E i \in 0..(Len(grid) - 1) : LabelRow(grid, i)

\* the first such row, top to bottom
FirstLabelRow(grid) ==
    CHOOSE i \in 0..(Len(grid) - 1) :
        LabelRow(grid, i) /\ \A k \in 0..(i - 1) : ~LabelRow(grid, k)

\* C1: a fulfilled promise carries at least one offer; a call whose grid has no
\* label row, or whose scan below the label row gathers no offer, ends rejected.
C1_OffersNeverEmpty ==
    /\ promise.state = "fulfilled" => Len(Result.offers) > 0
    /\ (reader = "done"
        /\ (~HasLabelRow(jsonData)
            \/ extractOffers(jsonData, FirstLabelRow(jsonData)) = <<>>))
       => promise.state = "rejected"

\* a call fulfilled with several offers
C1_Witness == promise.state = "fulfilled" /\ Len(Result.offers) >= 2

\* C2: every offer of a result has a name that is a non-empty text.
C2_NamesAreText ==
    promise.state = "fulfilled" =>
        \A i \in 1..Len(Result.offers) :
            Result.offers[i].name.t = "str" /\ Result.offers[i].name.s # <<>>

\* offer i has the least final rank and is the first, in row order, to have it
FirstOfLeastRank(offers, i) ==
    /\ \A j \in 1..Len(offers) : offers[j].rankFinal >= offers[i].rankFinal
    /\ \A j \in 1..(i - 1) : offers[j].rankFinal # offers[i].rankFinal

\* C3: the selected supplier is the first offer, in row order, among those of
\* least final rank, and the selected amount is that offer's amount.
C3_WinnerIsFirstOfLeastRank ==
    promise.state = "fulfilled" =>
        \E i \in 1..Len(Result.offers) :
            /\ FirstOfLeastRank(Result.offers, i)
            /\ Result.stats.selectedSupplierName = Result.offers[i].name
            /\ Result.stats.selectedOfferAmount = Result.offers[i].amountTTC

\* two offers tie on the least final rank, and differ in name and amount
C3_Witness ==
    /\ promise.state = "fulfilled"
    /\ \E i, j \in 1..Len(Result.offers) :
        /\ i < j
        /\ FirstOfLeastRank(Result.offers, i)
        /\ Result.offers[j].rankFinal = Result.offers[i].rankFinal
        /\ Result.offers[j].name # Result.offers[i].name
        /\ Result.offers[j].amountTTC # Result.offers[i].amountTTC

\* C4: when some offer has final rank 1, the selected supplier is an offer of
\* final rank 1; otherwise it is an offer of the least final rank present.
C4_RankOneWins ==
    promise.state = "fulfilled" =>
        \E i \in 1..Len(Result.offers) :
            /\ Result.stats.selectedSupplierName = Result.offers[i].name
            /\ Result.stats.selectedOfferAmount = Result.offers[i].amountTTC
            /\ IF \E j \in 1..Len(Result.offers) : Result.offers[j].rankFinal = 1
               THEN Result.offers[i].rankFinal = 1
               ELSE \A j \in 1..Len(Result.offers) :
                        Result.offers[j].rankFinal >= Result.offers[i].rankFinal

\* C5: a loaded grid with no label row is rejected with the structure error and
\* gives no result; a loaded grid with a label row is not, and the table read is
\* the one under its first label row.
C5_StructureErrorIffNoLabelRow ==
    Loaded =>
        IF HasLabelRow(jsonData)
        THEN /\ promise.error.message # StructureMessage
             /\ promise.state = "fulfilled" =>
                    Result.offers = extractOffers(jsonData, FirstLabelRow(jsonData))
        ELSE /\ promise.state = "rejected"
             /\ promise.error.message = StructureMessage
             /\ promise.value = NoResult
             /\ resolveCalls = 0

\* a grid with rows and no label row, rejected with the structure error
C5_Witness ==
    /\ Loaded
    /\ Len(jsonData) > 0
    /\ ~HasLabelRow(jsonData)
    /\ promise.error = StructureError

\* the scan ends at this row: it is missing, has no first cell, or is the marker
EndsScan(row) ==
    \/ ~row.present
    \/ row.cells = <<>>
    \/ ~Truthy(cellAt(row, 0))
    \/ (cellAt(row, 0).t = "str"
        /\ includes(toLowerCase(cellAt(row, 0).s), KwCalculDesGains))

\* row r is read as an offer of the table whose label row is h
YieldsOffer(grid, h, r) ==
    /\ r >= h + 2
    /\ r < Len(grid)
    /\ \A q \in (h + 2)..r : ~EndsScan(rowAt(grid, q))
    /\ Truthy(cellAt(rowAt(grid, r), 1))

\* C6: a loaded grid with a label row under which no row is read as an offer is
\* rejected with the empty-result error; that error has a message of its own and
\* is raised only for grids that have a label row.
C6_EmptyResultError ==
    /\ EmptyResultMessage # StructureMessage
    /\ Loaded =>
        /\ (HasLabelRow(jsonData)
            /\ \A r \in 0..(Len(jsonData) - 1) :
                   ~YieldsOffer(jsonData, FirstLabelRow(jsonData), r))
           => (promise.state = "rejected"
               /\ promise.error.message = EmptyResultMessage)
        /\ promise.error.message = EmptyResultMessage => HasLabelRow(jsonData)

\* the scan was stopped by a row below the label row, and nothing was gathered
C6_Witness ==
    /\ Loaded
    /\ promise.error = EmptyResultError
    /\ Len(jsonData) > FirstLabelRow(jsonData) + 2
    /\ EndsScan(rowAt(jsonData, FirstLabelRow(jsonData) + 2))

\* C7: a call makes exactly one of resolve and reject, once; a call whose table
\* extraction fails makes reject, never resolve, and no result reaches the caller;
\* a result that does reach the caller has its offers and its stats.
C7_OneOutcome ==
    /\ resolveCalls + rejectCalls <= 1
    /\ reader = "done" => resolveCalls + rejectCalls = 1
    /\ promise.state = "fulfilled" <=> resolveCalls = 1
    /\ promise.state = "rejected" <=> rejectCalls = 1
    /\ promise.state = "rejected" => promise.value = NoResult
    /\ promise.state = "fulfilled" =>
           /\ Result.offers # <<>>
           /\ Result.stats # NoStats
           /\ promise.error = NoError
    /\ (reader = "done"
        /\ (~HasLabelRow(jsonData)
            \/ \A r \in 0..(Len(jsonData) - 1) :
                   ~YieldsOffer(jsonData, FirstLabelRow(jsonData), r)))
       => (promise.state = "rejected" /\ resolveCalls = 0)

\* a failed table extraction: rejected once, never resolved
C7_Witness ==
    /\ Loaded
    /\ promise.state = "rejected"
    /\ promise.error \in {StructureError, EmptyResultError}
    /\ rejectCalls = 1
    /\ resolveCalls = 0

RECURSIVE SumOfAmounts(_, _)
\* the sum of the amounts of offers 1..k
SumOfAmounts(offers, k) ==
    IF k = 0 THEN 0 ELSE offers[k].amountTTC + SumOfAmounts(offers, k - 1)

\* the result has exactly the offers Acme (rank 1, 120000) and Beta (rank 2, 110000)
AcmeAndBeta ==
    /\ promise.state = "fulfilled"
    /\ Len(Result.offers) = 2
    /\ Result.offers[1].name = Str(<<"A", "c", "m", "e">>)
    /\ Result.offers[1].rankFinal = 1
    /\ Result.offers[1].amountTTC = 120000 * Scale
    /\ Result.offers[2].name = Str(<<"B", "e", "t", "a">>)
    /\ Result.offers[2].rankFinal = 2
    /\ Result.offers[2].amountTTC = 110000 * Scale

\* C9: averageOffer is the sum of all amounts over their number, minOffer and
\* maxOffer are the least and the greatest amount, and savingVsAverage is the
\* average less the selected amount; Acme and Beta give 115000, Acme with 120000,
\* and -5000.
C9_Statistics ==
    promise.state = "fulfilled" =>
        LET offers == Result.offers
            stats == Result.stats
            n == Len(offers)
        IN  /\ stats.averageOffer.den = n
            /\ stats.averageOffer.num = SumOfAmounts(offers, n)
            /\ \E i \in 1..n : stats.minOffer = offers[i].amountTTC
            /\ \A i \in 1..n : stats.minOffer <= offers[i].amountTTC
            /\ \E i \in 1..n : stats.maxOffer = offers[i].amountTTC
            /\ \A i \in 1..n : stats.maxOffer >= offers[i].amountTTC
            /\ stats.savingVsAverage.den = n
            /\ stats.savingVsAverage.num =
                   SumOfAmounts(offers, n) - n * stats.selectedOfferAmount
            /\ AcmeAndBeta =>
                   /\ stats.averageOffer.num = 115000 * Scale * stats.averageOffer.den
                   /\ stats.selectedSupplierName = Str(<<"A", "c", "m", "e">>)
                   /\ stats.selectedOfferAmount = 120000 * Scale
                   /\ stats.savingVsAverage.num
                          = (-5000) * Scale * stats.savingVsAverage.den

\* the example of the claim: the saving is negative
C9_Witness == AcmeAndBeta /\ Result.stats.savingVsAverage.num < 0

\* what a text of PercentTexts writes, in thousandths; NaN when it writes no number
Meaning(s) ==
    CASE s = <<"2", "0", "%">> -> Number(20 * Scale)
      [] s = <<"0", ",", "2">> -> Number(200)
      [] s = <<"2", "0">> -> Number(20 * Scale)
      [] s = <<" ", "2", "0", " ">> -> Number(20 * Scale)
      [] s = <<"5", ",", "5", " ", "%">> -> Number(5 * Scale + 500)
      [] s = <<"-", "0", ",", "5">> -> Number(-500)
      [] s = <<"0", ".", "1", "9", "6">> -> Number(196)
      [] s = <<"2", "0", " ", "%">> -> Number(20 * Scale)
      [] OTHER -> NaN

\* r is x * 100 rounded to an integer when x < 1, and x itself otherwise
IsPercentOf(r, x) ==
    IF x < Scale
    THEN r % Scale = 0 /\ 2 * (r - 100 * x) <= Scale /\ 2 * (100 * x - r) <= Scale
    ELSE r = x

\* C10: parsePercentage gives round(v * 100) for a number v < 1 and v for v >= 1;
\* a text is read without its '%' and with its comma as a point, then treated
\* alike; an empty or unreadable value gives 0; 0.2, 20, "20%" and "0,2" give 20.
C10_PercentageRule ==
    pctRes.done =>
        /\ pctVal.t = "num" => IsPercentOf(pctRes.v, pctVal.v)
        /\ pctVal.t = "str" =>
               IF Meaning(pctVal.s).nan THEN pctRes.v = 0
               ELSE IsPercentOf(pctRes.v, Meaning(pctVal.s).v)
        /\ pctVal.t = "undef" => pctRes.v = 0
        /\ pctVal \in {Num(200), Num(20 * Scale), Str(<<"2", "0", "%">>),
                       Str(<<"0", ",", "2">>)}
           => pctRes.v = 20 * Scale

\* the call was made on the text "0,2"
C10_Witness == pctRes.done /\ pctVal = Str(<<"0", ",", "2">>) /\ pctRes.v = 20 * Scale

\* the amount a text of CurrencyTexts writes, in thousandths, once its white space
\* and euro signs are taken out and its comma is read as a decimal point; NaN when
\* what is left does not start with a number
AmountWritten(s) ==
    CASE s = TextAmount -> Number(1036593 * Scale + 620)
      [] s = TextAmountNbsp -> Number(1000 * Scale + 500)
      [] s = <<"1", "2", "0", " ", "0", "0", "0", ",", "0", "0", " ", "€">> -> Number(120000 * Scale)
      [] s = <<"1", "0", "3", "6", "5", "9", "3", ".", "6", "2">> -> Number(1036593 * Scale + 620)
      [] s = <<"1", "2", ",", "5">> -> Number(12 * Scale + 500)
      [] s = <<"-", "7", ",", "2", "5", " ", "€">> -> Number(-(7 * Scale + 250))
      [] s = <<"€", " ", "4", "5">> -> Number(45 * Scale)
      [] s = <<"0">> -> Number(0)
      [] s = <<"1", "2", " ", "a", "b", "c">> -> Number(12 * Scale)
      [] OTHER -> NaN

NamesWithAN01 == {NameAN01, NameLower, NameInside}

\* the name of the sheet the claim designates in a workbook
DesignatedSheet(names) ==
    IF \E i \in 1..Len(names) : names[i] \in NamesWithAN01
    THEN names[CHOOSE i \in 1..Len(names) :
                   /\ names[i] \in NamesWithAN01
                   /\ \A j \in 1..(i - 1) : names[j] \notin NamesWithAN01]
    ELSE names[1]

\* C12: for a workbook with sheets, the grid is built from the first sheet whose
\* name contains "AN01" whatever its case, from the first sheet when there is none,
\* and exactly one sheet is read.
C12_SheetSelection ==
    (Loaded /\ SheetNames # <<>>) =>
        /\ sheetsRead = <<DesignatedSheet(SheetNames)>>
        /\ sheetName = [chosen |-> TRUE, name |-> DesignatedSheet(SheetNames)]
        /\ jsonData = SheetGrid(DesignatedSheet(SheetNames))
        /\ promise.state = "fulfilled"
        /\ Result.offers[1].name = Str(DesignatedSheet(SheetNames))

\* a lower-case match that is neither the first sheet nor the last
C12_Witness ==
    /\ Loaded
    /\ Len(SheetNames) = 3
    /\ SheetNames[1] \notin NamesWithAN01
    /\ SheetNames[2] = NameLower
    /\ SheetNames[3] = NameAN01
    /\ sheetsRead = <<NameLower>>

\* the promise of a call that runs alone on a grid and whose file is read
PromiseAlone ==
    [g \in ConcurrentGrids |->
        LET headerRowIndex == findHeaderRowIndex(g)
            r == pipelineOutcome(ExtractMetadata(g), headerRowIndex,
                                 IF headerRowIndex = -1 THEN <<>>
                                 ELSE extractOffers(g, headerRowIndex))
        IN  IF r.threw THEN rejected(Pending, r.error) ELSE resolved(Pending, r.result)]

C14_VatRateIsInteger ==
    promise.state = "fulfilled" => Result.metadata.vatRate % Scale = 0

\* the rank cells of the offer rows that do not start with an integer
UnreadableRanks == {Str(<<"x">>)}

\* C15: the final rank of every offer is an integer that is not negative, and it is
\* 0 exactly when the rank cell of the offer's row cannot be read as an integer.
C15_RanksNotNegative ==
    promise.state = "fulfilled" =>
        \A i \in 1..Len(Result.offers) :
            LET o == Result.offers[i]
            IN  /\ o.rankFinal >= 0
                /\ o.rankFinancial >= 0
                /\ o.rankTechnical >= 0
                /\ o.rankFinal = 0 <=> cellAt(rowAt(jsonData, o.id), 1) \in UnreadableRanks

\* C16: the id of an offer is the index of the row it was read from; ids are at
\* least the label row's index + 2, and the offers of a result are in strictly
\* increasing order of id (so pairwise distinct), whatever their ranks.
C16_IdsAreRowIndexes ==
    promise.state = "fulfilled" =>
        /\ \A i \in 1..Len(Result.offers) :
            /\ Result.offers[i].id >= FirstLabelRow(jsonData) + 2
            /\ Result.offers[i].id < Len(jsonData)
            /\ Result.offers[i].name = cellAt(rowAt(jsonData, Result.offers[i].id), 0)
            /\ Result.offers[i].rankFinal
                   = parseIntOrZero(cellAt(rowAt(jsonData, Result.offers[i].id), 1))
        /\ \A i, j \in 1..Len(Result.offers) :
               i < j => Result.offers[i].id < Result.offers[j].id

\* a result whose offers are not in order of rank
C16_Witness ==
    /\ promise.state = "fulfilled"
    /\ Len(Result.offers) >= 2
    /\ Result.offers[1].rankFinal > Result.offers[2].rankFinal
    /\ Result.offers[1].id < Result.offers[2].id

\* the rows the claim has the scan end at: missing, without cells, or the marker
EndsScanAsClaimed(row) ==
    \/ ~row.present
    \/ row.cells = <<>>
    \/ (cellAt(row, 0).t = "str"
        /\ includes(toLowerCase(cellAt(row, 0).s), KwCalculDesGains))

\* the rows read as offers when the scan ends as the claim has it
RowsClaimed(grid, h) ==
    {r \in (h + 2)..(Len(grid) - 1) :
        /\ \A q \in (h + 2)..r : ~EndsScanAsClaimed(rowAt(grid, q))
        /\ cellAt(rowAt(grid, r), 1) \notin {Undef, Str(<<>>)}}

\* the offers gathered are those of the rows of the set ids, one for each
OffersAreRows(ids) ==
    IF ids = {}
    THEN promise.error = EmptyResultError
    ELSE /\ promise.state = "fulfilled"
         /\ {Result.offers[i].id : i \in 1..Len(Result.offers)} = ids
         /\ Len(Result.offers) = Cardinality(ids)

\* C17 as stated: the offers are those of the rows from the label row + 2 up to the
\* first row that is absent, empty or the marker, whose second cell is not empty.
C17_RowExtraction ==
    (Loaded /\ HasLabelRow(jsonData)) =>
        OffersAreRows(RowsClaimed(jsonData, FirstLabelRow(jsonData)))

\* C17 amended: the scan also ends at the first row whose first cell is empty; the
\* offers are those of the rows from the label row + 2 up to the row that ends the
\* scan, whose second cell is not empty; the row at label row + 1 is never read.
C17_RowExtractionAmended ==
    (Loaded /\ HasLabelRow(jsonData)) =>
        OffersAreRows({r \in 0..(Len(jsonData) - 1) :
                          YieldsOffer(jsonData, FirstLabelRow(jsonData), r)})

\* a sub-header that looks like an offer, a row without rank between two offers,
\* and a row below the marker: two offers
C17_Witness ==
    /\ Loaded
    /\ FirstLabelRow(jsonData) = 0
    /\ jsonData = <<RowHeader, RowBeta, RowAcme, RowNoRank, RowBeta>>
    /\ promise.state = "fulfilled"
    /\ Len(Result.offers) = 2
    /\ Result.offers[1].id = 2
    /\ Result.offers[2].id = 4

\* the field a row of the metadata pool labels
FieldLabelled(row) ==
    CASE row \in {RowBuyer, RowBuyerAlone, RowBuyerRight} -> "buyer"
      [] row = RowConsultation -> "consultationNo"
      [] row = RowDescription -> "description"
      [] row = RowRequester -> "requester"
      [] row = RowTechnician -> "technician"
      [] row \in {RowDelay, RowDelayAlone} -> "decisionDate"
      [] OTHER -> "none"

\* the value such a row shows for its field; no text when it shows none
ValueShown(row) ==
    CASE row = RowBuyer -> <<"M", "i", "n", "i", "s", "t", "è", "r", "e", " ", "X">>
      [] row = RowBuyerRight -> <<"V", "i", "l", "l", "e", " ", "Y">>
      [] row = RowConsultation -> <<"A", "O", "O", "-", "2", "4">>
      [] row = RowDescription -> <<"T", "r", "a", "v", "a", "u", "x">>
      [] row = RowRequester -> <<"D", "S", "I">>
      [] row = RowTechnician -> <<"M", ".", " ", "D", "u", "p", "o", "n", "t">>
      [] row = RowDelay -> <<"9", "0", " ", "j", "o", "u", "r", "s">>
      [] OTHER -> <<>>

TextFields ==
    {"consultationNo", "description", "buyer", "requester", "technician", "decisionDate"}

\* the value of the first of rows 0..19 that labels field f (and, when withValue,
\* shows a value for it); no text when there is no such row
FirstLabelled(grid, f, withValue) ==
    LET rows == {i \in 0..19 :
                    /\ i < Len(grid)
                    /\ FieldLabelled(rowAt(grid, i)) = f
                    /\ withValue => ValueShown(rowAt(grid, i)) # <<>>}
    IN  IF rows = {} THEN <<>>
        ELSE ValueShown(rowAt(grid, CHOOSE i \in rows : \A k \in rows : i <= k))

\* C18 as stated: each text field is that of the first of rows 0..19 with the
\* field's keyword, also when that row shows no value.
C18_FirstMatchWins ==
    promise.state = "fulfilled" =>
        \A f \in TextFields : Result.metadata[f] = FirstLabelled(jsonData, f, FALSE)

\* C18 amended: each text field is that of the first of rows 0..19 with the field's
\* keyword that shows a value; rows with the keyword below it do not change it.
C18_FirstValueWins ==
    promise.state = "fulfilled" =>
        \A f \in TextFields : Result.metadata[f] = FirstLabelled(jsonData, f, TRUE)

\* two rows label the buyer with different values: the upper one is kept
C18_Witness ==
    /\ promise.state = "fulfilled"
    /\ jsonData[1] = RowBuyer
    /\ jsonData[2] = RowBuyerRight
    /\ Result.metadata.buyer = <<"M", "i", "n", "i", "s", "t", "è", "r", "e", " ", "X">>

\* the rate the cell at row 8, column 7 writes, in thousandths of a percent point;
\* 0 when the grid has no such cell or the cell writes no rate
FixedRate(grid) ==
    IF Len(grid) <= 8 THEN 0
    ELSE CASE rowAt(grid, 8) = RowTva -> 20 * Scale
           [] rowAt(grid, 8) = VatCellRow(Num(5 * Scale + 500)) -> 5 * Scale + 500
           [] rowAt(grid, 8) = VatCellRow(Num(200)) -> 20 * Scale
           [] OTHER -> 0

\* the rate the first candidate cell of a row labelled "tva" writes; 0 for other rows
LabelledRate(row) ==
    CASE row = RowTva -> 20 * Scale
      [] row = RowTvaNumber -> 5 * Scale + 500
      [] row = RowTvaText -> 10 * Scale
      [] OTHER -> 0

\* the rate of the first of rows 0..19 that is labelled "tva"; 0 when there is none
FallbackRate(grid) ==
    LET rows == {i \in 0..19 : i < Len(grid) /\ LabelledRate(rowAt(grid, i)) # 0}
    IN  IF rows = {} THEN 0
        ELSE LabelledRate(rowAt(grid, CHOOSE i \in rows : \A k \in rows : i <= k))

KeywordColumn(row) == IF row \in {RowBuyerRight, RowDelayAlone} THEN 1 ELSE 0

\* the text of the cell right of the label; no text when the label is the last cell
RightOfKeyword(row) ==
    IF KeywordColumn(row) + 2 <= Len(row.cells)
    THEN row.cells[KeywordColumn(row) + 2].s
    ELSE <<>>

\* C20: when one of rows 0..19 alone labels a field, the field is the text of the
\* cell right of the label cell, '' when the label cell is the last of its row, and
\* for the consultation number the cell with "AOO"; ["Acheteur", "Ministère X"]
\* gives buyer = "Ministère X".
C20_ValueRightOfKeyword ==
    promise.state = "fulfilled" =>
        \A i \in 0..19 :
            (/\ i < Len(jsonData)
             /\ FieldLabelled(rowAt(jsonData, i)) # "none"
             /\ \A k \in 0..19 :
                    (k < Len(jsonData) /\ k # i)
                    => FieldLabelled(rowAt(jsonData, k)) # FieldLabelled(rowAt(jsonData, i)))
            => /\ Result.metadata[FieldLabelled(rowAt(jsonData, i))]
                      = IF rowAt(jsonData, i) = RowConsultation THEN <<"A", "O", "O", "-", "2", "4">>
                        ELSE RightOfKeyword(rowAt(jsonData, i))
               /\ rowAt(jsonData, i) = RowBuyer
                      => Result.metadata.buyer = <<"M", "i", "n", "i", "s", "t", "è", "r", "e", " ", "X">>
               /\ rowAt(jsonData, i) \in {RowBuyerAlone, RowDelayAlone}
                      => Result.metadata[FieldLabelled(rowAt(jsonData, i))] = <<>>

\* a label right of column 0 with its value, and a label that is the last cell
C20_Witness ==
    /\ promise.state = "fulfilled"
    /\ jsonData[1] = RowBuyerRight
    /\ jsonData[2] = RowDelayAlone
    /\ Result.metadata.buyer = <<"V", "i", "l", "l", "e", " ", "Y">>
    /\ Result.metadata.decisionDate = <<>>

\* rows 0..19 of a grid
FirstTwentyRows(grid) == SubSeq(grid, 1, IF Len(grid) < 20 THEN Len(grid) ELSE 20)

\* C21: the metadata of a result is the metadata of rows 0..19 alone, whatever the
\* rows of index 20 or more hold (a field labelled only there keeps its default),
\* while the label row of the table is found at any index.
C21_MetadataOfFirstTwentyRows ==
    promise.state = "fulfilled" =>
        /\ Result.metadata = ExtractMetadata(FirstTwentyRows(jsonData)).metadata
        /\ \A f \in TextFields :
               (\A i \in 0..19 : i < Len(jsonData) => FieldLabelled(rowAt(jsonData, i)) # f)
               => Result.metadata[f] = <<>>
        /\ (\A i \in 0..19 : i < Len(jsonData) => LabelledRate(rowAt(jsonData, i)) = 0)
               => Result.metadata.vatRate = FixedRate(jsonData)
        /\ Result.offers[1].id = FirstLabelRow(jsonData) + 2

\* rows 20 and beyond label the buyer, hold an "AOO" cell, and the label row of the
\* table: the fields keep their defaults and the table is read
C21_Witness ==
    /\ promise.state = "fulfilled"
    /\ Len(jsonData) > 21
    /\ jsonData[20] = RowConsultation
    /\ jsonData[21] = RowBuyer
    /\ FirstLabelRow(jsonData) = 21
    /\ Result.metadata.buyer = <<>>
    /\ Result.metadata.consultationNo = <<"A", "O", "O", "-", "2", "4">>

\* the gross amount a row of StatRowPool writes in column H, in thousandths
WrittenAmount(row) ==
    IF Len(row.cells) < 8 THEN 0
    ELSE CASE row.cells[8].s = <<"-", "1", "0", "0">> -> -(100 * Scale)
           [] row.cells[8].s = <<"0">> -> 0
           [] row.cells[8].s = <<"0", ",", "0", "0", " ", "€">> -> 0
           [] row.cells[8].s = <<"1", "0", "0">> -> 100 * Scale
           [] row.cells[8].s = <<"1", "0", "0", ",", "0", "0", " ", "€">> -> 100 * Scale
           [] row.cells[8].s = <<"2", "5", "0">> -> 250 * Scale
           [] row.cells[8].s = <<"2", "5", "0", ",", "5">> -> 250 * Scale + 500

RECURSIVE SumOfWritten(_, _)
\* the amounts written in rows h + 2 .. k of the grid (indexes from 0), added up
SumOfWritten(grid, k) ==
    IF k < 2 THEN 0 ELSE WrittenAmount(rowAt(grid, k)) + SumOfWritten(grid, k - 1)

\* the amounts written below the sub-header have mean 0
MeanIsZero(grid) == Len(grid) > 2 /\ SumOfWritten(grid, Len(grid) - 1) = 0

\* C22: a table whose gross amounts have mean 0 is answered with a result, not an
\* error; savingPercent is not a finite number (NaN when the selected amount is 0,
\* an infinity of the sign of the saving otherwise), and the offers and the other
\* statistics are those of the rows: the mean is 0, the saving is minus the selected
\* amount.
C22_ZeroMeanResolves ==
    (Loaded /\ MeanIsZero(jsonData)) =>
        LET offers == Result.offers
            stats == Result.stats
            n == Len(jsonData) - 2
        IN  /\ promise.state = "fulfilled"
            /\ rejectCalls = 0
            /\ Len(offers) = n
            /\ \A i \in 1..n : /\ offers[i].id = i + 1
                               /\ offers[i].amountTTC = WrittenAmount(jsonData[i + 2])
            /\ stats.savingPercent.kind =
                   (IF stats.selectedOfferAmount = 0 THEN "NaN"
                    ELSE IF stats.selectedOfferAmount < 0 THEN "Infinity"
                    ELSE "-Infinity")
            /\ stats.averageOffer = Ratio(0, n)
            /\ \E i \in 1..n : /\ FirstOfLeastRank(offers, i)
                               /\ stats.selectedOfferAmount = offers[i].amountTTC
                               /\ stats.selectedSupplierName = offers[i].name
                               /\ stats.savingVsAverage = Ratio(0 - n * offers[i].amountTTC, n)
            /\ \E i \in 1..n : stats.minOffer = offers[i].amountTTC
            /\ \A i \in 1..n : stats.minOffer <= offers[i].amountTTC
            /\ \E i \in 1..n : stats.maxOffer = offers[i].amountTTC
            /\ \A i \in 1..n : stats.maxOffer >= offers[i].amountTTC

\* every amount is 0: the result carries NaN beside a mean, a minimum and a maximum of 0
C22_Witness ==
    /\ promise.state = "fulfilled"
    /\ MeanIsZero(jsonData)
    /\ Len(Result.offers) = 2
    /\ Result.stats.maxOffer = 0
    /\ Result.stats.minOffer = 0
    /\ Result.stats.savingPercent.kind = "NaN"

\* amount x is the amountTTC of some offer
IsAmountOf(offers, x) == \E i \in 1..Len(offers) : offers[i].amountTTC = x

C23_RejectionShown ==
    /\ [](\A c \in DOMAIN uploads :
              uploads[c].promise.state = "rejected" =>
                  \A k \in DOMAIN completeCalls : completeCalls[k] # c)
    /\ [][\A c \in DOMAIN uploads :
              (Mounted /\ uploads[c].pc = "parsing" /\ uploads'[c].pc = "failed") =>
                  /\ ~view'.loading
                  /\ view'.progress = 0
                  /\ view'.error = uploads'[c].promise.error.message]_vars

\* C25: a result is handed to onAnalysisComplete, and shown by App, only for the file
\* submitted last, and never once the failure of a file submitted later has put the
\* view in the error state.
C25_LatestFileWins ==
    [][\A c \in DOMAIN uploads :
          (uploads[c].pc = "waiting" /\ uploads'[c].pc = "completed") =>
              /\ c = Len(uploads)
              /\ analysisData' = uploads[c].promise.value
              /\ ~\E d \in DOMAIN uploads :
                     /\ d > c
                     /\ uploads[d].pc = "failed"
                     /\ ~view.loading
                     /\ view.error # ""]_vars

=============================================================================
